---- MODULE Spec2Model ----
(***************************************************************************)
(* Model of the Lotka-Volterra simulation engine, LotkaVolterraModel.py:   *)
(* the vector field LotkaVolterra, the integration driver                  *)
(* SolveLotkaVolterra, the equilibrium computation Equilibria and the      *)
(* oscillation statistics AmplitudeandFrequency; of the stability check of *)
(* LVTestFunctions.py; of the script Simulation.py, statement by           *)
(* statement; and of the event handlers of InteractivePlot.py.             *)
(*                                                                         *)
(* Numbers.  Python floats are modelled as exact rationals <<n, d>> in     *)
(* lowest terms with d > 0; rounding is abstracted away.  Division follows *)
(* Python float semantics: a zero divisor raises ZeroDivisionError (the    *)
(* parameters are Python floats at every call site of the repository:      *)
(* argparse type=float / configparser getfloat in Simulation.py, float     *)
(* literals and hypothesis floats in LVTestFunctions.py).  numpy            *)
(* arithmetic does not raise: the mean of an empty array is NaN and a      *)
(* division by zero is Inf.                                                *)
(*                                                                         *)
(* Library routines.  numpy.linspace and scipy.integrate.odeint are        *)
(* modelled by their documented contracts.  odeint returns one row per     *)
(* entry of t, the first row being y0; each further row is obtained from   *)
(* the previous one by a step that moves the state only along evaluations  *)
(* of the callback (one forward step per output interval stands for the    *)
(* library's adaptive multistep method).                                   *)
(***************************************************************************)
EXTENDS Integers, Sequences, FiniteSets, TLC

VARIABLES
    fn,                  \* the function of the module called last
    parameters,          \* argument: (alpha, beta, delta, gamma)
    variables,           \* argument of LotkaVolterra: [x, y]
    time,                \* argument of LotkaVolterra: the time value;
                         \* of AmplitudeandFrequency: the time array
    initial_conditions,  \* argument of SolveLotkaVolterra: [x0, y0]
    t_max,               \* argument of SolveLotkaVolterra
    num_points,          \* argument of SolveLotkaVolterra
    solution,            \* argument of AmplitudeandFrequency: rows [x, y]
    ret,                 \* what the call produced
    runs,                \* the simulation runs made so far, with results
    script,              \* Simulation.py: position, settings, other variables,
                         \* files written, figures drawn, calls made
    plot                 \* InteractivePlot.py: sliders and plotted lines

vars == <<fn, parameters, variables, time, initial_conditions, t_max,
          num_points, solution, ret, runs, script, plot>>

----------------------------------------------------------------------------
(* Bounds of the model. *)

MaxParam == 2       \* integer rate parameters range over 0..MaxParam (and -1)
MaxPop == 2         \* integer populations range over 0..MaxPop
MaxT == 2           \* integer t_max ranges over -1..MaxT
MaxPoints == 3      \* num_points ranges over 1..MaxPoints
MaxLen == 5         \* analysed series have 1..MaxLen samples
MaxRuns == 3        \* simulation runs made one after the other

----------------------------------------------------------------------------
(* Exact rational arithmetic standing for Python float arithmetic. *)

Abs(i) == IF i < 0 THEN -i ELSE i

RECURSIVE GCD(_, _)
GCD(a, b) == IF b = 0 THEN a ELSE GCD(b, a % b)

Rat(n, d) ==
    LET g == GCD(Abs(n), Abs(d))
        s == IF d < 0 THEN -1 ELSE 1
    IN  <<(s * n) \div g, (s * d) \div g>>

FromInt(i) == <<i, 1>>
Zero == <<0, 1>>
One == <<1, 1>>

RAdd(a, b) ==
    LET g == GCD(a[2], b[2])
    IN  Rat(a[1] * (b[2] \div g) + b[1] * (a[2] \div g), (a[2] \div g) * b[2])

RNeg(a) == <<-a[1], a[2]>>

RSub(a, b) == RAdd(a, RNeg(b))

RMul(a, b) ==
    LET g1 == GCD(Abs(a[1]), b[2])
        g2 == GCD(Abs(b[1]), a[2])
    IN  Rat((a[1] \div g1) * (b[1] \div g2), (a[2] \div g2) * (b[2] \div g1))

\* b # Zero
RDiv(a, b) == RMul(a, Rat(b[2], b[1]))

RLess(a, b) == a[1] * b[2] < b[1] * a[2]

RLeq(a, b) == a[1] * b[2] <= b[1] * a[2]

----------------------------------------------------------------------------
(* What a call produces: it returns a value or raises. *)

NoValue == <<>>

NoResult ==
    [status |-> "none", error |-> "", rates |-> NoValue, eq_points |-> NoValue,
     sol |-> NoValue, t |-> NoValue, peaks |-> NoValue, stats |-> NoValue,
     jacobian |-> NoValue]

Raise(e) == [NoResult EXCEPT !.status = "raise", !.error = e]

----------------------------------------------------------------------------
(* LotkaVolterra(variables, time, *parameters) *)

\* Mutant: the predator death term is added instead of subtracted.
LotkaVolterra_DeathAdded(vs, tm, ps) ==
    LET x == vs[1]  y == vs[2]
        alpha == ps[1]  beta == ps[2]  delta == ps[3]  gamma == ps[4]
    IN  <<RSub(RMul(alpha, x), RMul(RMul(beta, x), y)),
          RAdd(RMul(RMul(delta, x), y), RMul(gamma, y))>>

\* Mutant: the predation term of the prey loses its factor x.
LotkaVolterra_NoPreyFactor(vs, tm, ps) ==
    LET x == vs[1]  y == vs[2]
        alpha == ps[1]  beta == ps[2]  delta == ps[3]  gamma == ps[4]
    IN  <<RSub(RMul(alpha, x), RMul(beta, y)),
          RSub(RMul(RMul(delta, x), y), RMul(gamma, y))>>

\* Mutant: the time argument enters the prey rate.
LotkaVolterra_UsesTime(vs, tm, ps) ==
    LET x == vs[1]  y == vs[2]
        alpha == ps[1]  beta == ps[2]  delta == ps[3]  gamma == ps[4]
    IN  <<RAdd(RSub(RMul(alpha, x), RMul(RMul(beta, x), y)), tm),
          RSub(RMul(RMul(delta, x), y), RMul(gamma, y))>>

\* The rate pair (dxdt, dydt).  No parameter is validated and the time
\* argument is not read; the function never raises on numeric arguments.
LotkaVolterra(vs, tm, ps) ==
    LET x == vs[1]  y == vs[2]
        alpha == ps[1]  beta == ps[2]  delta == ps[3]  gamma == ps[4]
        dxdt == RSub(RMul(alpha, x), RMul(RMul(beta, x), y))
        dydt == RSub(RMul(RMul(delta, x), y), RMul(gamma, y))
    IN  <<dxdt, dydt>>

----------------------------------------------------------------------------
(* Library routines used by SolveLotkaVolterra. *)

\* np.linspace(start, stop, num) for num >= 1: num samples, start first;
\* for num >= 2 evenly spaced by (stop - start)/(num - 1), stop last.
linspace(start, stop, num) ==
    IF num = 1
    THEN <<start>>
    ELSE LET step == RDiv(RSub(stop, start), FromInt(num - 1))
         IN  [i \in 1..num |->
                 IF i = num THEN stop
                 ELSE RAdd(start, RMul(FromInt(i - 1), step))]

\* odeint(LotkaVolterra, y0, t, args): one row per entry of t, the first
\* row y0; the callback is LotkaVolterra at the only call of the module and
\* is called as func(y, t, *args).
odeint(y0, t, args) ==
    LET row[i \in 1..Len(t)] ==
            IF i = 1
            THEN y0
            ELSE LET prev == row[i - 1]
                     h == RSub(t[i], t[i - 1])
                     f == LotkaVolterra(prev, t[i - 1], args)
                 IN  <<RAdd(prev[1], RMul(h, f[1])),
                       RAdd(prev[2], RMul(h, f[2]))>>
    IN  [i \in 1..Len(t) |-> row[i]]

----------------------------------------------------------------------------
(* SolveLotkaVolterra(parameters, initial_conditions, t_max, num_points) *)

\* Mutant: the time vector is built with one sample too few.
SolveLotkaVolterra_DropLast(ps, ic, tmax, n) ==
    LET t == linspace(Zero, tmax, IF n > 1 THEN n - 1 ELSE n)
        sol == odeint(<<ic[1], ic[2]>>, t, ps)
    IN  [NoResult EXCEPT !.status = "return", !.sol = sol, !.t = t]

\* Mutant: the initial conditions are handed over in the wrong order.
SolveLotkaVolterra_SwappedInit(ps, ic, tmax, n) ==
    LET t == linspace(Zero, tmax, n)
        sol == odeint(<<ic[2], ic[1]>>, t, ps)
    IN  [NoResult EXCEPT !.status = "return", !.sol = sol, !.t = t]

\* Mutant: the integration starts from the initial conditions an earlier
\* run left behind, where there is one.
SolveLotkaVolterra_StaleInitialConditions(ps, ic, tmax, n) ==
    LET t == linspace(Zero, tmax, n)
        y0 == IF initial_conditions = <<>> THEN ic ELSE initial_conditions
        sol == odeint(y0, t, ps)
    IN  [NoResult EXCEPT !.status = "return", !.sol = sol, !.t = t]

\* No argument is validated: whatever t_max and num_points >= 1 are, the
\* time vector is built and the equations are integrated over it.
SolveLotkaVolterra(ps, ic, tmax, n) ==
    LET t == linspace(Zero, tmax, n)
        x0 == ic[1]
        y0 == ic[2]
        sol == odeint(<<x0, y0>>, t, ps)
    IN  [NoResult EXCEPT !.status = "return", !.sol = sol, !.t = t]

----------------------------------------------------------------------------
(* Equilibria(parameters) *)

\* The marker a float division by zero yields where it does not raise.
Inf == <<1, 0>>

\* Mutant: the two coordinates of the coexistence point are exchanged.
Equilibria_SwappedCoordinates(ps) ==
    LET alpha == ps[1]  beta == ps[2]  delta == ps[3]  gamma == ps[4]
    IN  IF delta = Zero \/ beta = Zero
        THEN Raise("ZeroDivisionError")
        ELSE [NoResult EXCEPT !.status = "return",
                !.eq_points = <<<<Zero, Zero>>,
                                <<RDiv(alpha, beta), RDiv(gamma, delta)>>>>]

\* Mutant: a zero divisor yields an infinite coordinate instead of raising.
Equilibria_InfOnZero(ps) ==
    LET alpha == ps[1]  beta == ps[2]  delta == ps[3]  gamma == ps[4]
    IN  [NoResult EXCEPT !.status = "return",
            !.eq_points =
                <<<<Zero, Zero>>,
                  <<IF delta = Zero THEN Inf ELSE RDiv(gamma, delta),
                    IF beta = Zero THEN Inf ELSE RDiv(alpha, beta)>>>>]

\* eq_point2 = [gamma/delta, alpha/beta] is evaluated left to right; either
\* division raises ZeroDivisionError on a zero divisor, before anything is
\* returned.
Equilibria(ps) ==
    LET alpha == ps[1]  beta == ps[2]  delta == ps[3]  gamma == ps[4]
        eq_point1 == <<Zero, Zero>>
    IN  IF delta = Zero THEN Raise("ZeroDivisionError")
        ELSE IF beta = Zero THEN Raise("ZeroDivisionError")
        ELSE [NoResult EXCEPT !.status = "return",
                !.eq_points =
                    <<eq_point1, <<RDiv(gamma, delta), RDiv(alpha, beta)>>>>]

----------------------------------------------------------------------------
(* AmplitudeandFrequency(sol, t) *)

\* The marker numpy yields for an undefined float result.
NaN == <<0, 0>>

\* Mutant: only samples strictly greater than both neighbours are peaks; a
\* flat top yields none.
find_peaks_StrictOnly(x) ==
    LET i_max == Len(x)
        OpensPeak(i) == RLess(x[i - 1], x[i]) /\ RLess(x[i + 1], x[i])
        RECURSIVE Scan(_)
        Scan(i) ==
            LET opening == {j \in i..(i_max - 1) : OpensPeak(j)}
            IN  IF opening = {} THEN <<>>
                ELSE LET left == CHOOSE j \in opening :
                                    \A m \in opening : j <= m
                     IN  <<left>> \o Scan(left + 1)
    IN  Scan(2)

\* scipy.signal.find_peaks(x) without conditions: the local maxima of x, by
\* the library's scan from left to right.  A sample that rises above its
\* left neighbour opens a flat run; the run is a peak when the sample that
\* ends it is lower, and the peak is the middle sample of the run, rounded
\* down; the scan goes on behind the run.  The first and the last sample
\* are never peaks.  Indices are counted from 1.
find_peaks(x) ==
    LET i_max == Len(x)
        RECURSIVE Ahead(_, _)
        Ahead(i, i_ahead) ==
            IF i_ahead < i_max /\ x[i_ahead] = x[i]
            THEN Ahead(i, i_ahead + 1)
            ELSE i_ahead
        OpensPeak(i) ==
            RLess(x[i - 1], x[i]) /\ RLess(x[Ahead(i, i + 1)], x[i])
        RECURSIVE Scan(_)
        Scan(i) ==
            LET opening == {j \in i..(i_max - 1) : OpensPeak(j)}
            IN  IF opening = {} THEN <<>>
                ELSE LET left == CHOOSE j \in opening :
                                    \A m \in opening : j <= m
                         i_ahead == Ahead(left, left + 1)
                     IN  <<(left + i_ahead - 1) \div 2>> \o Scan(i_ahead + 1)
    IN  Scan(2)

\* t[peaks]
Take(t, peaks) == [k \in 1..Len(peaks) |-> t[peaks[k]]]

\* np.diff(a)
np_diff(a) ==
    IF Len(a) = 0 THEN <<>>
    ELSE [k \in 1..(Len(a) - 1) |-> RSub(a[k + 1], a[k])]

RECURSIVE np_sum(_)
np_sum(a) == IF Len(a) = 0 THEN Zero ELSE RAdd(a[1], np_sum(Tail(a)))

\* np.mean(a): NaN (with a warning) for an empty array
np_mean(a) ==
    IF Len(a) = 0 THEN NaN ELSE RDiv(np_sum(a), FromInt(Len(a)))

\* 1 / m for a numpy float m: NaN stays NaN, a zero divisor gives Inf
\* (with a warning)
Reciprocal(m) ==
    IF m = NaN THEN NaN
    ELSE IF m = Zero THEN Inf
    ELSE RDiv(One, m)

\* np.max(a), np.min(a), a not empty
np_max(a) ==
    a[CHOOSE i \in 1..Len(a) : \A j \in 1..Len(a) : RLeq(a[j], a[i])]

np_min(a) ==
    a[CHOOSE i \in 1..Len(a) : \A j \in 1..Len(a) : RLeq(a[i], a[j])]

\* Mutant: the amplitude is half the swing.
Ampl_Freq_population_HalfSwing(tm, population) ==
    LET peaks == find_peaks(population)
        t_intervals == np_diff(Take(tm, peaks))
        freq == Reciprocal(np_mean(t_intervals))
        amplitude == RDiv(RSub(np_max(population), np_min(population)),
                          FromInt(2))
    IN  [amplitude |-> amplitude, freq |-> freq, peaks |-> peaks]

\* Mutant: the intervals are differences of peak indices, not of peak times.
Ampl_Freq_population_IndexIntervals(tm, population) ==
    LET peaks == find_peaks(population)
        t_intervals == np_diff([k \in 1..Len(peaks) |-> FromInt(peaks[k])])
        freq == Reciprocal(np_mean(t_intervals))
        amplitude == RSub(np_max(population), np_min(population))
    IN  [amplitude |-> amplitude, freq |-> freq, peaks |-> peaks]

\* The inner function.  It indexes the time array of the enclosing call,
\* which is the array it is passed.  Its local peaks is kept in the result
\* for the properties to refer to.
Ampl_Freq_population(tm, population) ==
    LET peaks == find_peaks(population)
        t_intervals == np_diff(Take(tm, peaks))
        freq == Reciprocal(np_mean(t_intervals))
        amplitude == RSub(np_max(population), np_min(population))
    IN  [amplitude |-> amplitude, freq |-> freq, peaks |-> peaks]

\* sol[:, k]
Column(sol, k) == [i \in 1..Len(sol) |-> sol[i][k]]

\* Mutant: the prey frequency is read off the predator series.
AmplitudeandFrequency_PredatorDrivesPrey(sol, t) ==
    LET predator_pop == Column(sol, 2)
        prey_pop == Column(sol, 1)
        predator == Ampl_Freq_population(t, predator_pop)
        prey == Ampl_Freq_population(t, prey_pop)
    IN  [NoResult EXCEPT !.status = "return",
            !.stats = <<prey.amplitude, predator.freq,
                        predator.amplitude, predator.freq>>,
            !.peaks = <<predator.peaks, predator.peaks>>]

AmplitudeandFrequency(sol, t) ==
    LET predator_pop == Column(sol, 2)
        prey_pop == Column(sol, 1)
        predator == Ampl_Freq_population(t, predator_pop)
        prey == Ampl_Freq_population(t, prey_pop)
    IN  [NoResult EXCEPT !.status = "return",
            !.stats = <<prey.amplitude, prey.freq,
                        predator.amplitude, predator.freq>>,
            !.peaks = <<prey.peaks, predator.peaks>>]

----------------------------------------------------------------------------
(* LVTestFunctions.py: LotkaVolterraJacobian(x, *parameters) and the       *)
(* check_stability(eq_point, parameters) of test_Equilibria.               *)

\* Mutant: the predator death rate enters the Jacobian with the wrong sign.
LotkaVolterraJacobian_DeathAdded(x, ps) ==
    LET alpha == ps[1]  beta == ps[2]  delta == ps[3]  gamma == ps[4]
    IN  <<<<RSub(alpha, RMul(beta, x[2])), RNeg(RMul(beta, x[1]))>>,
          <<RMul(delta, x[2]), RAdd(RMul(delta, x[1]), gamma)>>>>

LotkaVolterraJacobian(x, ps) ==
    LET alpha == ps[1]  beta == ps[2]  delta == ps[3]  gamma == ps[4]
    IN  <<<<RSub(alpha, RMul(beta, x[2])), RNeg(RMul(beta, x[1]))>>,
          <<RMul(delta, x[2]), RSub(RMul(delta, x[1]), gamma)>>>>

Trace(J) == RAdd(J[1][1], J[2][2])

Det(J) == RSub(RMul(J[1][1], J[2][2]), RMul(J[1][2], J[2][1]))

\* all(np.real(eigvals(J)) < 0) for a real 2 x 2 matrix: the eigenvalues are
\* the roots of s^2 - Trace(J) s + Det(J), and both roots have a negative
\* real part exactly when Trace(J) < 0 and Det(J) > 0.
AllRealPartsNegative(J) == RLess(Trace(J), Zero) /\ RLess(Zero, Det(J))

\* The assertion fails on an equilibrium point that is not stable.
check_stability(eq_point, ps) ==
    LET J == LotkaVolterraJacobian(eq_point, ps)
    IN  IF AllRealPartsNegative(J)
        THEN [NoResult EXCEPT !.status = "return", !.jacobian = J]
        ELSE [Raise("AssertionError") EXCEPT !.jacobian = J]

----------------------------------------------------------------------------
(* The arguments the calls are made with. *)

ParamValues == {FromInt(i) : i \in (-1)..MaxParam}

ParamTuples ==
    {<<a, b, d, g>> : a \in ParamValues, b \in ParamValues,
                      d \in ParamValues, g \in ParamValues}

PopValues == {FromInt(i) : i \in 0..MaxPop}

States == {<<x, y>> : x \in PopValues, y \in PopValues}

\* test_LotkaVolterra_computation: alpha, beta, delta, gamma = 1.2, 0.5, 0.3,
\* 0.5 (and negative_alpha = -1.2), variables = [15, 20], time = 25.
TestParameters == <<Rat(12, 10), Rat(1, 2), Rat(3, 10), Rat(1, 2)>>
TestNegativeParameters == <<Rat(-12, 10), Rat(1, 2), Rat(3, 10), Rat(1, 2)>>
TestVariables == <<FromInt(15), FromInt(20)>>
TestTime == FromInt(25)

TimeValues == {Zero, TestTime}

\* The parameter lists of the equilibrium tests and of the specification's
\* example: (1, 0.5, 0.2, 0.5), [2.0, 1.0, 2.5, 4.0], [1.0, 2.0, 3.0, 4.0].
EqExample1 == <<One, Rat(1, 2), Rat(1, 5), Rat(1, 2)>>
EqExample2 == <<FromInt(2), One, Rat(5, 2), FromInt(4)>>
EqExample3 == <<One, FromInt(2), FromInt(3), FromInt(4)>>

\* test_SolveLotkaVolterra_extinction: parameters (1, 1, 2, 2), initial
\* conditions [1, 1], t_max in [1, 50], num_points in [10, 500].
ExtinctionParameters == <<One, One, FromInt(2), FromInt(2)>>
ExtinctionInit == <<One, One>>
TestMinPoints == 10
TestMaxPoints == 500
TestMinT == 1
TestMaxT == 50

TMaxValues == {FromInt(i) : i \in (-1)..MaxT}

NoArg == <<>>

\* Trajectories handed to AmplitudeandFrequency: the prey series is any
\* series of integer populations, the predator series is the prey series
\* reversed or a constant one; the time array is an evenly spaced grid.
Series(n) == [1..n -> PopValues]

Reverse(a) == [i \in 1..Len(a) |-> a[Len(a) + 1 - i]]

Constant(n) == [i \in 1..n |-> One]

Rows(a, b) == [i \in 1..Len(a) |-> <<a[i], b[i]>>]

Trajectories(n) ==
    {Rows(a, b) : a \in Series(n), b \in {Constant(n)}}
    \cup {Rows(a, Reverse(a)) : a \in Series(n)}

TimeGrids(n) == {linspace(Zero, FromInt(T), n) : T \in 1..MaxT}

\* The mock data of test_AmplitudeFrequency: t = np.linspace(0, 10, 100),
\* prey = np.sin(2 * np.pi * 0.5 * t), predator = np.cos(2 * np.pi * 0.5 * t).
\* The samples are tabulated in ten-thousandths, rounded to the nearest.
TestSamples == 100
TestTEnd == 10

TestTimeArray == linspace(Zero, FromInt(TestTEnd), TestSamples)

SinSamples ==
    <<0, 3120, 5929, 8146, 9549, 9999, 9450, 7958, 5671, 2817, -317, -3420,
      -6182, -8326, -9638, -9989, -9341, -7761, -5406, -2511, 634, 3717,
      6428, 8497, 9718, 9969, 9224, 7557, 5137, 2203, -951, -4009, -6668,
      -8660, -9788, -9938, -9096, -7346, -4862, -1893, 1266, 4298, 6901,
      8815, 9848, 9898, 8960, 7127, 4582, 1580, -1580, -4582, -7127, -8960,
      -9898, -9848, -8815, -6901, -4298, -1266, 1893, 4862, 7346, 9096,
      9938, 9788, 8660, 6668, 4009, 951, -2203, -5137, -7557, -9224, -9969,
      -9718, -8497, -6428, -3717, -634, 2511, 5406, 7761, 9341, 9989, 9638,
      8326, 6182, 3420, 317, -2817, -5671, -7958, -9450, -9999, -9549,
      -8146, -5929, -3120, 0>>

CosSamples ==
    <<10000, 9501, 8053, 5801, 2969, -159, -3271, -6056, -8237, -9595,
      -9995, -9397, -7861, -5539, -2665, 476, 3569, 6306, 8413, 9679, 9980,
      9284, 7660, 5272, 2358, -792, -3863, -6549, -8580, -9754, -9955,
      -9161, -7453, -5000, -2048, 1108, 4154, 6785, 8738, 9819, 9920, 9029,
      7237, 4723, 1736, -1423, -4441, -7015, -8888, -9874, -9874, -8888,
      -7015, -4441, -1423, 1736, 4723, 7237, 9029, 9920, 9819, 8738, 6785,
      4154, 1108, -2048, -5000, -7453, -9161, -9955, -9754, -8580, -6549,
      -3863, -792, 2358, 5272, 7660, 9284, 9980, 9679, 8413, 6306, 3569,
      476, -2665, -5539, -7861, -9397, -9995, -9595, -8237, -6056, -3271,
      -159, 2969, 5801, 8053, 9501, 10000>>

TenThousandths(v) == [i \in 1..Len(v) |-> Rat(v[i], 10000)]

TestPrey == TenThousandths(SinSamples)

TestPredator == TenThousandths(CosSamples)

TestTrajectory == Rows(TestPrey, TestPredator)

----------------------------------------------------------------------------
(* The state machine.  The functions are pure: a behaviour is one call.    *)
(* The initial state holds the function about to be called and its         *)
(* arguments; the call is one step and leaves its result in ret.           *)

Args(f, ps, vs, tm, ic, tmax, n) ==
    /\ fn = f
    /\ parameters = ps
    /\ variables = vs
    /\ time = tm
    /\ initial_conditions = ic
    /\ t_max = tmax
    /\ num_points = n

Init ==
    /\ ret = NoResult
    /\ runs = <<>>
    /\ script = NoValue
    /\ plot = NoValue
    /\ solution = NoArg
    /\ \/ \E ps \in ParamTuples \cup {TestParameters, TestNegativeParameters},
             vs \in States \cup {TestVariables},
             tm \in TimeValues :
               Args("LotkaVolterra", ps, vs, tm, NoArg, NoArg, 0)
       \/ \E ps \in ParamTuples, ic \in States, tmax \in TMaxValues,
             n \in 1..MaxPoints :
               Args("SolveLotkaVolterra", ps, NoArg, NoArg, ic, tmax, n)
       \/ \E tmax \in {FromInt(TestMinT), FromInt(TestMaxT)} :
               Args("SolveLotkaVolterra", ExtinctionParameters, NoArg, NoArg,
                    ExtinctionInit, tmax, TestMinPoints)
       \/ \E ps \in ParamTuples \cup {EqExample1, EqExample2, EqExample3} :
               Args("Equilibria", ps, NoArg, NoArg, NoArg, NoArg, 0)

\* A call of check_stability on one of the points Equilibria returns.
InitStability ==
    /\ ret = NoResult
    /\ runs = <<>>
    /\ script = NoValue
    /\ plot = NoValue
    /\ solution = NoArg
    /\ \E ps \in ParamTuples \cup {EqExample1, EqExample2, EqExample3} :
          /\ Equilibria(ps).status = "return"
          /\ \E i \in 1..2 :
                Args("check_stability", ps, Equilibria(ps).eq_points[i],
                     NoArg, NoArg, NoArg, 0)

\* A call of AmplitudeandFrequency on a trajectory.
InitAnalysis ==
    /\ ret = NoResult
    /\ runs = <<>>
    /\ script = NoValue
    /\ plot = NoValue
    /\ \/ \E n \in 1..MaxLen : \E sol \in Trajectories(n), t \in TimeGrids(n) :
             /\ solution = sol
             /\ Args("AmplitudeandFrequency", NoArg, NoArg, t, NoArg, NoArg,
                     0)
       \/ /\ solution = TestTrajectory
          /\ Args("AmplitudeandFrequency", NoArg, NoArg, TestTimeArray, NoArg,
                  NoArg, 0)

Pending(f) == fn = f /\ ret.status = "none"

Args_unchanged ==
    UNCHANGED <<fn, parameters, variables, time, initial_conditions, t_max,
                num_points, solution, runs, script, plot>>

CallLotkaVolterra ==
    /\ Pending("LotkaVolterra")
    /\ ret' = [NoResult EXCEPT !.status = "return",
                 !.rates = LotkaVolterra(variables, time, parameters)]
    /\ Args_unchanged

CallSolveLotkaVolterra ==
    /\ Pending("SolveLotkaVolterra")
    /\ ret' = SolveLotkaVolterra(parameters, initial_conditions, t_max,
                                 num_points)
    /\ Args_unchanged

CallEquilibria ==
    /\ Pending("Equilibria")
    /\ ret' = Equilibria(parameters)
    /\ Args_unchanged

Next ==
    \/ CallLotkaVolterra
    \/ CallSolveLotkaVolterra
    \/ CallEquilibria

Spec == Init /\ [][Next]_vars

CallAmplitudeandFrequency ==
    /\ Pending("AmplitudeandFrequency")
    /\ ret' = AmplitudeandFrequency(solution, time)
    /\ Args_unchanged

CallCheckStability ==
    /\ Pending("check_stability")
    /\ ret' = check_stability(variables, parameters)
    /\ Args_unchanged

NextStability == CallCheckStability

SpecStability == InitStability /\ [][NextStability]_vars

NextAnalysis == CallAmplitudeandFrequency

SpecAnalysis == InitAnalysis /\ [][NextAnalysis]_vars

----------------------------------------------------------------------------
(* Simulation.py: runs made one after the other.  A run assigns the        *)
(* script's variables parameters, initial_conditions, t_max and num_points *)
(* and computes solution, time, the equilibrium points and the oscillation *)
(* statistics from them; a run of the phase-space sweep reassigns          *)
(* initial_conditions with another y0 and computes solution and time       *)
(* again.  runs records the inputs and the results of every run.           *)

RunParameters == {ExtinctionParameters, EqExample1}

y0_values == {FromInt(i) : i \in 1..MaxPop}

RunInitialConditions == {<<One, y0>> : y0 \in y0_values}

InitRuns ==
    /\ ret = NoResult
    /\ runs = <<>>
    /\ script = NoValue
    /\ plot = NoValue
    /\ solution = NoArg
    /\ Args("Simulation", NoArg, NoArg, NoArg, NoArg, NoArg, 0)

RunRecord(kind, ps, ic, tmax, n, sol, t, eq, stat) ==
    [kind |-> kind, parameters |-> ps, initial_conditions |-> ic,
     t_max |-> tmax, num_points |-> n, solution |-> sol, time |-> t,
     eq_points |-> eq, stats |-> stat]

RunSimulation(ps, ic, tmax, n) ==
    /\ Len(runs) < MaxRuns
    /\ LET solved == SolveLotkaVolterra(ps, ic, tmax, n)
       IN  solution' = solved.sol /\ time' = solved.t
    /\ LET eq_points == Equilibria(ps).eq_points
       IN  /\ ret' = [AmplitudeandFrequency(solution', time') EXCEPT
                        !.sol = solution', !.t = time',
                        !.eq_points = eq_points]
           /\ runs' = Append(runs, RunRecord("run", ps, ic, tmax, n,
                                             solution', time', eq_points,
                                             ret'.stats))
    /\ parameters' = ps
    /\ initial_conditions' = ic
    /\ t_max' = tmax
    /\ num_points' = n
    /\ UNCHANGED <<fn, variables, script, plot>>

SweepRun(y0) ==
    /\ Len(runs) > 0
    /\ Len(runs) < MaxRuns
    /\ LET x0 == initial_conditions[1]
           solved == SolveLotkaVolterra(parameters, <<x0, y0>>, t_max,
                                        num_points)
       IN  /\ initial_conditions' = <<x0, y0>>
           /\ solution' = solved.sol
           /\ time' = solved.t
           /\ runs' = Append(runs, RunRecord("sweep", parameters, <<x0, y0>>,
                                             t_max, num_points, solution',
                                             time', NoValue, NoValue))
    /\ UNCHANGED <<fn, parameters, variables, t_max, num_points, ret, script,
                   plot>>

NextRuns ==
    \/ \E ps \in RunParameters, ic \in RunInitialConditions,
          n \in {2, MaxPoints} :
            RunSimulation(ps, ic, FromInt(MaxT), n)
    \/ \E y0 \in y0_values : SweepRun(y0)

SpecRuns == InitRuns /\ [][NextRuns]_vars

----------------------------------------------------------------------------
(* Calls of AmplitudeandFrequency made one after the other on trajectories *)
(* that share a column or differ in it; runs records each call's           *)
(* arguments and results.                                                  *)

AnalysedSeries ==
    {<<Zero, One, Zero, One, Zero>>,
     <<Zero, One, Zero, Zero, FromInt(2)>>,
     <<Zero, FromInt(2), One, FromInt(2), Zero>>,
     <<One, One, FromInt(2), FromInt(2), One>>}

AnalysedTrajectories ==
    {Rows(a, b) : a \in AnalysedSeries, b \in AnalysedSeries}

InitCalls ==
    /\ ret = NoResult
    /\ runs = <<>>
    /\ script = NoValue
    /\ plot = NoValue
    /\ solution = NoArg
    /\ Args("AmplitudeandFrequency", NoArg, NoArg, NoArg, NoArg, NoArg, 0)

AnalyseTrajectory(sol, t) ==
    /\ Len(runs) < 2
    /\ solution' = sol
    /\ time' = t
    /\ ret' = AmplitudeandFrequency(solution', time')
    /\ runs' = Append(runs, [solution |-> solution', time |-> time',
                             stats |-> ret'.stats])
    /\ UNCHANGED <<fn, parameters, variables, initial_conditions, t_max,
                   num_points, script, plot>>

NextCalls ==
    \E sol \in AnalysedTrajectories, t \in TimeGrids(MaxLen) :
        AnalyseTrajectory(sol, t)

SpecCalls == InitCalls /\ [][NextCalls]_vars

----------------------------------------------------------------------------
(* Simulation.py, statement by statement.  script.pc is the statement the  *)
(* script is at; the script's variables parameters, initial_conditions,    *)
(* t_max, num_points, solution and time are the variables of these names,  *)
(* its other variables are fields of script.  An exception no statement    *)
(* catches ends the script: pc becomes "crashed".  script.calls records    *)
(* the calls of LotkaVolterraModel made so far, with arguments and result. *)

\* A setting that is absent: args.<name> is None, the file has no such key.
None == <<>>

Settings(a, b, d, g, x, y, tm, n) ==
    [alpha |-> a, beta |-> b, delta |-> d, gamma |-> g, x0 |-> x, y0 |-> y,
     t_max |-> tm, num_points |-> n]

\* The command lines and configuration files the script is run with.  The
\* files ask for a trajectory of three time points up to t_max = 2.
CommandLines ==
    {Settings(a, None, None, None, None, y, None, None) :
        a \in {None, Zero, One}, y \in {None, Zero, FromInt(2)}}

ConfigFiles ==
    {Settings(a, b, None, None, x, y, FromInt(2), FromInt(3)) :
        a \in {None, One}, b \in {None, Zero, One}, x \in {None, One},
        y \in {None, One}}

Defaults ==
    Settings(Rat(11, 10), Rat(2, 5), Rat(1, 10), Rat(2, 5), FromInt(5),
             FromInt(15), FromInt(100), FromInt(1000))

\* y0_values = np.linspace(1, 10, 10), in the order the loop takes them
SweepPoints == 10

y0_sweep == linspace(One, FromInt(SweepPoints), SweepPoints)

NoFiles ==
    [prey_rates |-> None, pred_rates |-> None, time |-> None,
     eq_points |-> None, results |-> None]

InitScript ==
    /\ ret = NoResult
    /\ runs = <<>>
    /\ plot = NoValue
    /\ solution = NoArg
    /\ Args("Simulation", NoArg, NoArg, NoArg, NoArg, NoArg, 0)
    /\ \E a \in CommandLines, c \in ConfigFiles :
          script = [pc |-> "settings", args |-> a, config |-> c,
                    x0 |-> None, y0 |-> None, eq_points |-> None,
                    stats |-> None, prey_rates |-> None, pred_rates |-> None,
                    files |-> NoFiles, dynamic_plot |-> None,
                    phase_plot |-> <<>>, marked |-> None, next_y0 |-> 0,
                    calls |-> <<>>, error |-> ""]

At(l) == script.pc = l

\* args.v if args.v else params.getfloat('v', default): the command line's
\* value is used when it is truthy, that is neither None nor zero.
Resolve(arg, cfg, default) ==
    IF arg # None /\ arg # Zero THEN arg
    ELSE IF cfg # None THEN cfg
    ELSE default

Call(f, a, r) == [fn |-> f, args |-> a, result |-> r]

\* lines 46-70
ResolveSettings ==
    /\ At("settings")
    /\ LET a == script.args
           c == script.config
           alpha == Resolve(a.alpha, c.alpha, Defaults.alpha)
           beta == Resolve(a.beta, c.beta, Defaults.beta)
           delta == Resolve(a.delta, c.delta, Defaults.delta)
           gamma == Resolve(a.gamma, c.gamma, Defaults.gamma)
           x0 == Resolve(a.x0, c.x0, Defaults.x0)
           y0 == Resolve(a.y0, c.y0, Defaults.y0)
       IN  /\ parameters' = <<alpha, beta, delta, gamma>>
           /\ initial_conditions' = <<x0, y0>>
           /\ t_max' = Resolve(a.t_max, c.t_max, Defaults.t_max)
           /\ num_points' =
                Resolve(a.num_points, c.num_points, Defaults.num_points)[1]
           /\ script' = [script EXCEPT !.pc = "solve", !.x0 = x0, !.y0 = y0]
    /\ UNCHANGED <<fn, variables, time, solution, ret, runs, plot>>

\* line 73
SolveTrajectory ==
    /\ At("solve")
    /\ LET solved == SolveLotkaVolterra(parameters, initial_conditions,
                                        t_max, num_points)
       IN  solution' = solved.sol /\ time' = solved.t
    /\ script' = [script EXCEPT !.pc = "equilibria",
                    !.calls = Append(@, Call("SolveLotkaVolterra",
                        <<parameters, initial_conditions, t_max, num_points>>,
                        <<solution', time'>>))]
    /\ UNCHANGED <<fn, parameters, variables, initial_conditions, t_max,
                   num_points, ret, runs, plot>>

\* Mutant: the arrays are saved before the equilibrium points are computed.
ComputeEquilibria_SaveFirst ==
    /\ At("equilibria")
    /\ LET r == Equilibria(parameters)
           saved == [NoFiles EXCEPT !.prey_rates = Column(solution, 1),
                                    !.pred_rates = Column(solution, 2),
                                    !.time = time]
       IN  script' =
             IF r.status = "raise"
             THEN [script EXCEPT !.pc = "crashed", !.error = r.error,
                     !.files = saved,
                     !.calls = Append(@, Call("Equilibria", <<parameters>>,
                                              r.error))]
             ELSE [script EXCEPT !.pc = "analysis",
                     !.eq_points = r.eq_points, !.files = saved,
                     !.calls = Append(@, Call("Equilibria", <<parameters>>,
                                              r.eq_points))]
    /\ UNCHANGED <<fn, parameters, variables, time, initial_conditions, t_max,
                   num_points, solution, ret, runs, plot>>

\* line 75; nothing catches the ZeroDivisionError
ComputeEquilibria ==
    /\ At("equilibria")
    /\ LET r == Equilibria(parameters)
       IN  script' =
             IF r.status = "raise"
             THEN [script EXCEPT !.pc = "crashed", !.error = r.error,
                     !.calls = Append(@, Call("Equilibria", <<parameters>>,
                                              r.error))]
             ELSE [script EXCEPT !.pc = "analysis",
                     !.eq_points = r.eq_points,
                     !.calls = Append(@, Call("Equilibria", <<parameters>>,
                                              r.eq_points))]
    /\ UNCHANGED <<fn, parameters, variables, time, initial_conditions, t_max,
                   num_points, solution, ret, runs, plot>>

\* Mutant: the analysis is handed a time array built anew over [0, 1].
AnalyseOscillations_OtherTime ==
    /\ At("analysis")
    /\ LET t == linspace(Zero, One, num_points)
           r == AmplitudeandFrequency(solution, t)
       IN  script' = [script EXCEPT !.pc = "save", !.stats = r.stats,
                        !.calls = Append(@, Call("AmplitudeandFrequency",
                                                 <<solution, t>>, r.stats))]
    /\ UNCHANGED <<fn, parameters, variables, time, initial_conditions, t_max,
                   num_points, solution, ret, runs, plot>>

\* line 78
AnalyseOscillations ==
    /\ At("analysis")
    /\ LET r == AmplitudeandFrequency(solution, time)
       IN  script' = [script EXCEPT !.pc = "save", !.stats = r.stats,
                        !.calls = Append(@, Call("AmplitudeandFrequency",
                                                 <<solution, time>>, r.stats))]
    /\ UNCHANGED <<fn, parameters, variables, time, initial_conditions, t_max,
                   num_points, solution, ret, runs, plot>>

\* lines 81-90
SaveArrays ==
    /\ At("save")
    /\ script' = [script EXCEPT !.pc = "results",
                    !.prey_rates = Column(solution, 1),
                    !.pred_rates = Column(solution, 2),
                    !.files = [@ EXCEPT !.prey_rates = Column(solution, 1),
                                        !.pred_rates = Column(solution, 2),
                                        !.time = time,
                                        !.eq_points = script.eq_points]]
    /\ UNCHANGED <<fn, parameters, variables, time, initial_conditions, t_max,
                   num_points, solution, ret, runs, plot>>

\* lines 93-107
WriteResults ==
    /\ At("results")
    /\ script' = [script EXCEPT !.pc = "dynamic_plot",
                    !.files = [@ EXCEPT !.results =
                        [eq_points |-> script.eq_points,
                         stats |-> script.stats,
                         prey_rates |-> script.prey_rates,
                         pred_rates |-> script.pred_rates]]]
    /\ UNCHANGED <<fn, parameters, variables, time, initial_conditions, t_max,
                   num_points, solution, ret, runs, plot>>

\* lines 111-127
PlotDynamics ==
    /\ At("dynamic_plot")
    /\ script' = [script EXCEPT !.pc = "sweep", !.next_y0 = 1,
                    !.dynamic_plot = <<time, script.prey_rates,
                                       script.pred_rates>>]
    /\ UNCHANGED <<fn, parameters, variables, time, initial_conditions, t_max,
                   num_points, solution, ret, runs, plot>>

\* lines 130-137: one turn of the loop; the loop variable is y0
SweepStep ==
    /\ At("sweep")
    /\ LET y0 == y0_sweep[script.next_y0]
           solved == SolveLotkaVolterra(parameters, <<script.x0, y0>>, t_max,
                                        num_points)
       IN  /\ initial_conditions' = <<script.x0, y0>>
           /\ solution' = solved.sol
           /\ time' = solved.t
    /\ script' = [script EXCEPT
                    !.pc = IF script.next_y0 = Len(y0_sweep)
                           THEN "scatter" ELSE "sweep",
                    !.next_y0 = @ + 1,
                    !.y0 = initial_conditions'[2],
                    !.prey_rates = Column(solution', 1),
                    !.pred_rates = Column(solution', 2),
                    !.phase_plot = Append(@, <<Column(solution', 1),
                                               Column(solution', 2)>>),
                    !.calls = Append(@, Call("SolveLotkaVolterra",
                        <<parameters, initial_conditions', t_max, num_points>>,
                        <<solution', time'>>))]
    /\ UNCHANGED <<fn, parameters, variables, t_max, num_points, ret, runs,
                   plot>>

\* lines 140-151
MarkPoints ==
    /\ At("scatter")
    /\ script' = [script EXCEPT !.pc = "done",
                    !.marked = [initial |-> <<script.x0, script.y0>>,
                                extinction |-> script.eq_points[1],
                                coexistence |-> script.eq_points[2]]]
    /\ UNCHANGED <<fn, parameters, variables, time, initial_conditions, t_max,
                   num_points, solution, ret, runs, plot>>

NextScript ==
    \/ ResolveSettings
    \/ SolveTrajectory
    \/ ComputeEquilibria
    \/ AnalyseOscillations
    \/ SaveArrays
    \/ WriteResults
    \/ PlotDynamics
    \/ SweepStep
    \/ MarkPoints

SpecScript == InitScript /\ [][NextScript]_vars

----------------------------------------------------------------------------
(* InteractivePlot.py: the figure with its six sliders, the radio buttons  *)
(* and the two plotted lines, driven by the events of the user.  plot      *)
(* holds the sliders' values, each line's y data and transparency, and     *)
(* what the last event was and whether a slider was ever moved.            *)

SliderNames == {"alpha", "beta", "delta", "gamma", "x0", "y0"}

RateSliders == {"alpha", "beta", "delta", "gamma"}

RadioLabels == {"Prey", "Pred", "Both"}

\* Slider(ax, label, valmin, valmax, valinit = ...): the ends of each range.
valmin(s) == IF s \in RateSliders THEN Rat(1, 10) ELSE One

valmax(s) == IF s \in RateSliders THEN FromInt(2) ELSE FromInt(100)

\* A slider starts at valinit brought into its range.
valinit(s, v) ==
    IF RLess(v, valmin(s)) THEN valmin(s)
    ELSE IF RLess(valmax(s), v) THEN valmax(s)
    ELSE v

\* The positions a slider is dragged to: 1 and the upper end of the rate
\* sliders, the first whole steps of the population sliders.
SliderValues(s) ==
    IF s \in RateSliders
    THEN {One, valmax(s)}
    ELSE {FromInt(i) : i \in 1..MaxPop}

\* The configuration files the figure is opened with; alpha = 3 lies above
\* its slider's range.
PlotConfigs ==
    {Settings(a, One, One, One, One, One, FromInt(2), FromInt(3)) :
        a \in {One, FromInt(3)}}

\* The wrapper LotkaVolterra(alpha, beta, delta, gamma, x0, y0) of the
\* figure, which reads t_max and num_points of the module.
LotkaVolterra_wrapper(alpha, beta, delta, gamma, x0, y0) ==
    LET solved == SolveLotkaVolterra(<<alpha, beta, delta, gamma>>,
                                     <<x0, y0>>, t_max, num_points)
    IN  [prey_rates |-> Column(solved.sol, 1),
         pred_rates |-> Column(solved.sol, 2)]

InitPlot ==
    /\ ret = NoResult
    /\ runs = <<>>
    /\ script = NoValue
    /\ fn = "InteractivePlot"
    /\ variables = NoArg
    /\ \E c \in PlotConfigs :
        /\ parameters = <<c.alpha, c.beta, c.delta, c.gamma>>
        /\ initial_conditions = <<c.x0, c.y0>>
        /\ t_max = c.t_max
        /\ num_points = c.num_points[1]
        /\ solution = SolveLotkaVolterra(parameters, initial_conditions,
                                         t_max, num_points).sol
        /\ time = linspace(Zero, t_max, num_points)
        /\ plot = [sliders |-> [s \in SliderNames |-> valinit(s, c[s])],
                   prey_line |-> [ydata |-> Column(solution, 1),
                                  alpha |-> None],
                   pred_line |-> [ydata |-> Column(solution, 2),
                                  alpha |-> None],
                   event |-> <<"show", "">>,
                   slider_moved |-> FALSE]

\* Mutant: only the prey line is given its new data.
sliders_on_change_PreyOnly(s, val) ==
    LET sliders == [plot.sliders EXCEPT ![s] = val]
        rates == LotkaVolterra_wrapper(sliders["alpha"], sliders["beta"],
                     sliders["delta"], sliders["gamma"], sliders["x0"],
                     sliders["y0"])
    IN  /\ plot' = [plot EXCEPT !.sliders = sliders,
                                !.prey_line.ydata = rates.prey_rates,
                                !.event = <<"slider", "">>,
                                !.slider_moved = TRUE]
        /\ UNCHANGED <<fn, parameters, variables, time, initial_conditions,
                       t_max, num_points, solution, ret, runs, script>>

\* The slider s takes the value val and calls sliders_on_change(val).
sliders_on_change(s, val) ==
    LET sliders == [plot.sliders EXCEPT ![s] = val]
        rates == LotkaVolterra_wrapper(sliders["alpha"], sliders["beta"],
                     sliders["delta"], sliders["gamma"], sliders["x0"],
                     sliders["y0"])
    IN  /\ plot' = [plot EXCEPT !.sliders = sliders,
                                !.prey_line.ydata = rates.prey_rates,
                                !.pred_line.ydata = rates.pred_rates,
                                !.event = <<"slider", "">>,
                                !.slider_moved = TRUE]
        /\ UNCHANGED <<fn, parameters, variables, time, initial_conditions,
                       t_max, num_points, solution, ret, runs, script>>

pop_radios_on_clicked(label) ==
    /\ plot' = [plot EXCEPT
                  !.prey_line.alpha = IF label = "Pred" THEN Zero ELSE One,
                  !.pred_line.alpha = IF label = "Prey" THEN Zero ELSE One,
                  !.event = <<"radio", label>>]
    /\ UNCHANGED <<fn, parameters, variables, time, initial_conditions,
                   t_max, num_points, solution, ret, runs, script>>

NextPlot ==
    \/ \E s \in SliderNames : \E val \in SliderValues(s) :
          sliders_on_change(s, val)
    \/ \E label \in RadioLabels : pop_radios_on_clicked(label)

SpecPlot == InitPlot /\ [][NextPlot]_vars

----------------------------------------------------------------------------
(* Vocabulary of the properties. *)

Called(f) == fn = f /\ ret.status # "none"

Returned(f) == fn = f /\ ret.status = "return"

Raised(f) == fn = f /\ ret.status = "raise"

alpha_ == parameters[1]
beta_ == parameters[2]
delta_ == parameters[3]
gamma_ == parameters[4]

\* r = alpha*x - beta*x*y, as an identity between integers.
IsPreyRate(r, a, b, x, y) ==
    r[1] * (a[2] * b[2] * x[2] * y[2])
        = r[2] * (a[1] * x[1] * b[2] * y[2] - b[1] * x[1] * y[1] * a[2])

\* r = delta*x*y - gamma*y, as an identity between integers.
IsPredatorRate(r, d, g, x, y) ==
    r[1] * (d[2] * g[2] * x[2] * y[2])
        = r[2] * (d[1] * x[1] * y[1] * g[2] - g[1] * y[1] * d[2] * x[2])

\* q = n/d for d # 0, as an identity between integers.
IsQuotient(q, n, d) == q[2] > 0 /\ q[1] * d[1] * n[2] = n[1] * q[2] * d[2]

----------------------------------------------------------------------------
C2_NegativeParameterRejected ==
    (Called("LotkaVolterra") /\ \E i \in 1..4 : parameters[i][1] < 0) =>
        /\ ret.status = "raise"
        /\ ret.error = "Negative parameters are not allowed"
        /\ ret.rates = NoValue

----------------------------------------------------------------------------
(* Properties of the trajectory SolveLotkaVolterra returns. *)

Positive(a) == a[1] > 0

Last(seq) == seq[Len(seq)]

StrictlyIncreasing(t) ==
    \A i \in 1..(Len(t) - 1) : RLess(t[i], t[i + 1])

EvenlySpaced(t) ==
    \A i \in 2..(Len(t) - 1) : RSub(t[i + 1], t[i]) = RSub(t[i], t[i - 1])

ValidInput == Positive(t_max) /\ num_points >= 2

\* C5: for t_max > 0 and num_points >= 2, SolveLotkaVolterra returns a
\* solution of exactly num_points samples, each of exactly two components,
\* and a time array of exactly num_points entries.
C5_SolutionShape ==
    (Called("SolveLotkaVolterra") /\ ValidInput) =>
        /\ ret.status = "return"
        /\ Len(ret.sol) = num_points
        /\ \A i \in 1..Len(ret.sol) : Len(ret.sol[i]) = 2
        /\ Len(ret.t) = num_points

C5_Witness ==
    /\ Returned("SolveLotkaVolterra")
    /\ ValidInput
    /\ num_points = 3
    /\ Len(ret.sol) = 3
    /\ Len(ret.t) = 3

\* C6: the first sample of the returned trajectory is exactly the initial
\* state passed in, and the first time stamp is exactly 0.
C6_FirstSample ==
    Returned("SolveLotkaVolterra") =>
        /\ Len(ret.sol) >= 1
        /\ Len(ret.t) >= 1
        /\ ret.sol[1] = initial_conditions
        /\ ret.t[1] = Zero

C6_Witness ==
    /\ Returned("SolveLotkaVolterra")
    /\ initial_conditions = <<One, FromInt(2)>>
    /\ ret.sol[1] = <<One, FromInt(2)>>
    /\ Len(ret.sol) >= 2
    /\ ret.sol[2] # ret.sol[1]

\* C7: the time array returned by SolveLotkaVolterra is strictly
\* increasing and evenly spaced, starts at 0 and ends at t_max, and every
\* time value t satisfies 0 <= t <= t_max.
C7_TimeGrid ==
    Returned("SolveLotkaVolterra") =>
        /\ StrictlyIncreasing(ret.t)
        /\ EvenlySpaced(ret.t)
        /\ ret.t[1] = Zero
        /\ Last(ret.t) = t_max
        /\ \A i \in 1..Len(ret.t) : RLeq(Zero, ret.t[i]) /\ RLeq(ret.t[i], t_max)

\* The same on the arguments the integration is meant for, t_max > 0 and
\* num_points >= 2.
TimeGridOnValidInput ==
    (Returned("SolveLotkaVolterra") /\ ValidInput) =>
        /\ StrictlyIncreasing(ret.t)
        /\ EvenlySpaced(ret.t)
        /\ ret.t[1] = Zero
        /\ Last(ret.t) = t_max
        /\ \A i \in 1..Len(ret.t) : RLeq(Zero, ret.t[i]) /\ RLeq(ret.t[i], t_max)

\* C8: a call of SolveLotkaVolterra with t_max <= 0 or num_points < 2
\* fails with an invalid-input error and returns no trajectory.
C8_InvalidInputRejected ==
    (Called("SolveLotkaVolterra") /\ ~ValidInput) =>
        /\ ret.status = "raise"
        /\ ret.sol = NoValue
        /\ ret.t = NoValue

\* C9: a population that starts at exactly 0 is exactly 0 at every sample
\* of the returned trajectory, whatever the parameters, t_max and
\* num_points are.
C9_ZeroStaysZero ==
    Returned("SolveLotkaVolterra") =>
        /\ (initial_conditions[1] = Zero
                => \A i \in 1..Len(ret.sol) : ret.sol[i][1] = Zero)
        /\ (initial_conditions[2] = Zero
                => \A i \in 1..Len(ret.sol) : ret.sol[i][2] = Zero)

C9_Witness ==
    /\ Returned("SolveLotkaVolterra")
    /\ initial_conditions[1] = Zero
    /\ initial_conditions[2] # Zero
    /\ Positive(gamma_)
    /\ ValidInput
    /\ num_points = 3
    /\ Last(ret.sol)[1] = Zero
    /\ Last(ret.sol)[2] # initial_conditions[2]

InExtinctionTest ==
    /\ parameters = ExtinctionParameters
    /\ initial_conditions = ExtinctionInit
    /\ RLeq(FromInt(TestMinT), t_max) /\ RLeq(t_max, FromInt(TestMaxT))
    /\ num_points \in TestMinPoints..TestMaxPoints

----------------------------------------------------------------------------
(* Oscillation statistics.  Population 1 is the prey, population 2 the     *)
(* predator.                                                               *)

Populations == 1..2

Population(k) == Column(solution, k)

PeaksOf(k) == ret.peaks[k]

AmplitudeOf(k) == ret.stats[2 * k - 1]

FrequencyOf(k) == ret.stats[2 * k]

PeakIndices(k) == {PeaksOf(k)[i] : i \in 1..Len(PeaksOf(k))}

Ascending(p) == \A i, j \in 1..Len(p) : i < j => p[i] < p[j]

StrictMaximum(x, i) ==
    /\ 1 < i /\ i < Len(x)
    /\ RLess(x[i - 1], x[i]) /\ RLess(x[i + 1], x[i])

\* The samples l..r are equal and higher than the samples on either side.
FlatTop(x, l, r) ==
    /\ 1 < l /\ l <= r /\ r < Len(x)
    /\ \A j \in l..r : x[j] = x[l]
    /\ RLess(x[l - 1], x[l]) /\ RLess(x[r + 1], x[r])

----------------------------------------------------------------------------
----------------------------------------------------------------------------
----------------------------------------------------------------------------
FewPeaks(k) == Len(find_peaks(Population(k))) < 2

\* C14: when either population has fewer than two detected peaks,
\* AmplitudeandFrequency fails with an error and returns no frequency.
C14_InsufficientDataRaises ==
    Called("AmplitudeandFrequency") /\ (\E k \in Populations : FewPeaks(k))
        => Raised("AmplitudeandFrequency")

----------------------------------------------------------------------------
SameInputs(r1, r2) ==
    /\ r1.parameters = r2.parameters
    /\ r1.initial_conditions = r2.initial_conditions
    /\ r1.t_max = r2.t_max
    /\ r1.num_points = r2.num_points

----------------------------------------------------------------------------
NoRates == <<Zero, Zero>>

EquilibriumPoints(ps) ==
    {Equilibria(ps).eq_points[i] : i \in 1..Len(Equilibria(ps).eq_points)}

----------------------------------------------------------------------------
ZeroParameters == <<Zero, Zero, Zero, Zero>>

----------------------------------------------------------------------------
PositiveParameters ==
    Positive(alpha_) /\ Positive(beta_) /\ Positive(delta_) /\ Positive(gamma_)

AtExtinctionPoint == variables = <<Zero, Zero>>

----------------------------------------------------------------------------
InAmplitudeFrequencyTest == solution = TestTrajectory /\ time = TestTimeArray

Within(a, b, tol) == RLeq(RSub(a, b), tol) /\ RLeq(RSub(b, a), tol)

----------------------------------------------------------------------------
(* The script Simulation.py. *)

CallsMade == Len(script.calls)

\* C21: the script's first call is the integration, its second the
\* equilibrium computation on the same parameter tuple, its third the
\* oscillation analysis, which is handed exactly the trajectory and the
\* time array the first call returned; every later call is an integration
\* of the sweep, and the statistics exist only once the three calls are made.
C21_ComputationsInOrder ==
    /\ CallsMade >= 1 => script.calls[1].fn = "SolveLotkaVolterra"
    /\ CallsMade >= 2 =>
          /\ script.calls[2].fn = "Equilibria"
          /\ script.calls[2].args[1] = script.calls[1].args[1]
    /\ CallsMade >= 3 =>
          /\ script.calls[3].fn = "AmplitudeandFrequency"
          /\ script.calls[3].args = script.calls[1].result
    /\ \A i \in 4..CallsMade : script.calls[i].fn = "SolveLotkaVolterra"
    /\ script.eq_points # None => CallsMade >= 2
    /\ script.stats # None => CallsMade >= 3

\* The script ran to its end: three calls and the ten of the sweep.
C21_Witness ==
    /\ At("done")
    /\ CallsMade = 3 + SweepPoints
    /\ script.stats # None

----------------------------------------------------------------------------
NotANumber(v) == v = NaN \/ v = Inf

\* C22: no error of the core ends the script as an exception nothing
\* handles, and no NaN or Inf reaches the results the script writes.
C22_ErrorsHandled ==
    /\ ~At("crashed")
    /\ script.files.results # None =>
          \A i \in 1..Len(script.files.results.stats) :
              ~NotANumber(script.files.results.stats[i])

----------------------------------------------------------------------------
Swing(x, amplitude) ==
    \E i, j \in 1..Len(x) :
        /\ amplitude = RSub(x[i], x[j])
        /\ \A m \in 1..Len(x) : RLeq(x[j], x[m]) /\ RLeq(x[m], x[i])

\* C23: two calls of AmplitudeandFrequency with the same time array and the
\* same prey column return the same prey amplitude and frequency, whatever
\* the predator columns are, and likewise for the predator with the
\* columns exchanged; and the results come in the order prey amplitude,
\* prey frequency, predator amplitude, predator frequency: the first and
\* the third are the swings of column 0 and of column 1, the second and the
\* fourth are NaN exactly when column 0, column 1 has fewer than two peaks.
C23_PopulationsIndependent ==
    /\ \A i, j \in 1..Len(runs) : \A k \in Populations :
          ( /\ runs[i].time = runs[j].time
            /\ Column(runs[i].solution, k) = Column(runs[j].solution, k) )
            => /\ runs[i].stats[2 * k - 1] = runs[j].stats[2 * k - 1]
               /\ runs[i].stats[2 * k] = runs[j].stats[2 * k]
    /\ \A i \in 1..Len(runs) : \A k \in Populations :
          /\ Len(runs[i].stats) = 4
          /\ Swing(Column(runs[i].solution, k), runs[i].stats[2 * k - 1])
          /\ runs[i].stats[2 * k] = NaN
                <=> Len(find_peaks(Column(runs[i].solution, k))) < 2

\* Two calls with the same prey column and time array, predator columns of
\* which one has a frequency and the other has none, and a predator swing
\* that differs from the prey's.
C23_Witness ==
    /\ Len(runs) = 2
    /\ runs[1].time = runs[2].time
    /\ Column(runs[1].solution, 1) = Column(runs[2].solution, 1)
    /\ runs[1].stats[2] # NaN
    /\ runs[1].stats[4] = NaN
    /\ runs[2].stats[4] # NaN
    /\ runs[2].stats[3] # runs[2].stats[1]

\* The value a setting has by the rule "command line if given, else the
\* file's if present, else the default".
Configured(arg, cfg, default) ==
    IF arg # None THEN arg
    ELSE IF cfg # None THEN cfg
    ELSE default

\* C24: once the settings are resolved, each of the eight has the value the
\* command line gave whenever it gave one, zero included, else the file's
\* value if present, else the default.
C24_CommandLineWins ==
    At("solve") =>
        LET a == script.args
            c == script.config
            d == Defaults
        IN  /\ parameters =
                 <<Configured(a.alpha, c.alpha, d.alpha),
                   Configured(a.beta, c.beta, d.beta),
                   Configured(a.delta, c.delta, d.delta),
                   Configured(a.gamma, c.gamma, d.gamma)>>
            /\ initial_conditions =
                 <<Configured(a.x0, c.x0, d.x0), Configured(a.y0, c.y0, d.y0)>>
            /\ t_max = Configured(a.t_max, c.t_max, d.t_max)
            /\ FromInt(num_points) =
                 Configured(a.num_points, c.num_points, d.num_points)

----------------------------------------------------------------------------
\* C25: a file of the script exists only once the integration, the
\* equilibrium computation and the oscillation analysis have all returned;
\* a script that an exception ended has written none; and what the files
\* hold is the trajectory, time array and equilibrium points of the first
\* integration, the one from the configured initial condition, also after
\* the sweep has replaced the script's solution and time.
C25_FilesAfterComputations ==
    /\ script.files # NoFiles =>
          /\ CallsMade >= 3
          /\ script.files.prey_rates = Column(script.calls[1].result[1], 1)
          /\ script.files.pred_rates = Column(script.calls[1].result[1], 2)
          /\ script.files.time = script.calls[1].result[2]
          /\ script.files.eq_points = script.calls[2].result
          /\ script.calls[1].args[2][1] = script.x0
    /\ script.files.results # None =>
          /\ script.files.results.prey_rates = script.files.prey_rates
          /\ script.files.results.pred_rates = script.files.pred_rates
          /\ script.files.results.stats = script.calls[3].result
    /\ At("crashed") => script.files = NoFiles

\* The script ended after a sweep that left another trajectory in solution.
C25_Witness ==
    /\ At("done")
    /\ script.files.results # None
    /\ script.files.prey_rates # Column(solution, 1)

----------------------------------------------------------------------------
\* C26: at the end of the script the point marked 'Initial Condition' is the
\* configured (x0, y0), the initial condition of the saved trajectory.
C26_MarkedInitialCondition ==
    At("done") => script.marked.initial = script.calls[1].args[2]

----------------------------------------------------------------------------
\* A line is drawn unless its transparency was set to 0.
Visible(line) == line.alpha # Zero

PlottedFromSliders ==
    LET rates == LotkaVolterra_wrapper(plot.sliders["alpha"],
                     plot.sliders["beta"], plot.sliders["delta"],
                     plot.sliders["gamma"], plot.sliders["x0"],
                     plot.sliders["y0"])
    IN  /\ plot.prey_line.ydata = rates.prey_rates
        /\ plot.pred_line.ydata = rates.pred_rates

RadioChangesVisibilityOnly ==
    plot'.event[1] = "radio" =>
        /\ plot'.sliders = plot.sliders
        /\ plot'.prey_line.ydata = plot.prey_line.ydata
        /\ plot'.pred_line.ydata = plot.pred_line.ydata
        /\ Visible(plot'.prey_line) <=> plot'.event[2] \in {"Prey", "Both"}
        /\ Visible(plot'.pred_line) <=> plot'.event[2] \in {"Pred", "Both"}

\* C27: once a slider was moved, after every later slider or radio event
\* both plotted lines are the solution for the current values of the six
\* sliders with the t_max and num_points of the configuration; and a radio
\* click leaves the sliders and the plotted data as they were and shows the
\* prey line only for Prey, the predator line only for Pred, both for Both.
C27_LinesFollowSliders ==
    /\ [](plot.slider_moved => PlottedFromSliders)
    /\ [][RadioChangesVisibilityOnly]_vars

\* A slider other than alpha was moved while alpha was configured above its
\* range, then Prey was clicked: the predator line is hidden and holds the
\* data of the sliders, not of the configuration.
C27_Witness ==
    /\ plot.slider_moved
    /\ plot.event = <<"radio", "Prey">>
    /\ plot.sliders["alpha"] # parameters[1]
    /\ plot.sliders["y0"] # initial_conditions[2]
    /\ plot.pred_line.ydata # Column(solution, 2)
    /\ ~Visible(plot.pred_line)
    /\ Visible(plot.prey_line)

====
